---- MODULE Spec2Model ----
(***************************************************************************)
(* Model of the BorderRelief ML service (apps/ml/main.py): four HTTP       *)
(* endpoints served by a pool of workers.  Text is modelled as a sequence  *)
(* of one-character strings so that lower() and the substring test `in`    *)
(* are computed rather than assumed.  Real numbers of the responses are    *)
(* written as scaled integers: confidence in hundredths (0.98 -> 98) and   *)
(* total_distance_km in tenths (45.2 -> 452).                              *)
(***************************************************************************)
EXTENDS Integers, Sequences, FiniteSets, TLC

\* ---------------------------------------------------------------- bounds
\* longest description, counted in fragments of Fragments
MaxFrags == 2
\* longest locations list of a route request
MaxLocations == 5
\* number of feedback requests the service receives in a run
MaxFeedback == 2

\* the threads of the server's pool that run the handlers
Workers == {"w1", "w2"}

\* ------------------------------------------------------------------ text
UPPER ==
  <<"A","B","C","D","E","F","G","H","I","J","K","L","M",
    "N","O","P","Q","R","S","T","U","V","W","X","Y","Z">>

LOWER ==
  <<"a","b","c","d","e","f","g","h","i","j","k","l","m",
    "n","o","p","q","r","s","t","u","v","w","x","y","z">>

\* str.lower() on one character
LowerChar(c) ==
  IF \E i \in 1..Len(UPPER) : UPPER[i] = c
  THEN LOWER[CHOOSE i \in 1..Len(UPPER) : UPPER[i] = c]
  ELSE c

\* str.lower()
lower(s) == [i \in 1..Len(s) |-> LowerChar(s[i])]

\* variant of Contains with the operands of `in` exchanged (desc in w)
Contains_swapped(desc, w) ==
  \E i \in 0..(Len(w) - Len(desc)) : SubSeq(w, i + 1, i + Len(desc)) = desc

\* `w in desc` on strings: w occurs in desc as a contiguous substring
Contains(desc, w) ==
  \E i \in 0..(Len(desc) - Len(w)) : SubSeq(desc, i + 1, i + Len(w)) = w

\* any(w in desc for w in words)
AnyIn(desc, words) == \E k \in 1..Len(words) : Contains(desc, words[k])

\* the keyword lists of predict_category
WATER_WORDS ==
  << <<"w","a","t","e","r">>,
     <<"b","o","t","t","l","e">>,
     <<"d","r","i","n","k">> >>

MEDS_WORDS ==
  << <<"p","i","l","l">>,
     <<"d","r","u","g">>,
     <<"m","e","d","i","c","i","n","e">>,
     <<"b","a","n","d","a","g","e">> >>

\* ---------------------------------------------------------------- inputs
\* pieces descriptions are built from: keywords in several letter cases,
\* halves of a keyword, and text that holds no keyword
Fragments ==
  { <<"w","a","t","e","r">>,
    <<"W","A","T","E","R">>,
    <<"B","o","t","t","l","e">>,
    <<"d","r","i","n","k">>,
    <<"p","i","l","l">>,
    <<"D","r","u","g">>,
    <<"m","e","d","i","c","i","n","e">>,
    <<"b","a","n","d","a","g","e">>,
    <<"w","a","t">>,
    <<"e","r">>,
    <<"p","r","o","o","f">>,
    <<" ","o","f"," ">>,
    <<"2","L"," ">>,
    <<"r","i","c","e">> }

RECURSIVE DescriptionsOf(_)
DescriptionsOf(n) ==
  IF n = 0 THEN { <<>> }
  ELSE LET P == DescriptionsOf(n - 1)
       IN  P \cup { p \o f : p \in P, f \in Fragments }

Descriptions == DescriptionsOf(MaxFrags)

\* the descriptions the concurrent service is exercised with
SampleDescriptions ==
  { <<>>,
    <<"r","i","c","e">>,
    <<"B","o","t","t","l","e">>,
    <<"p","i","l","l">>,
    <<"B","o","t","t","l","e">> \o <<" ","o","f"," ">> \o <<"p","i","l","l">> }

\* JSON values of a request body, one record shape per field
Absent == [kind |-> "absent", val |-> <<>>]
JNull == [kind |-> "null", val |-> <<>>]
JNumber == [kind |-> "number", val |-> <<"7">>]
JString(s) == [kind |-> "string", val |-> s]
JBool(b) == [kind |-> "bool", val |-> b]
JBoolAbsent == [kind |-> "absent", val |-> FALSE]
JArray(a) == [kind |-> "array", val |-> a]
JObject(o) == [kind |-> "object", val |-> o]

\* two depot lists; a locations list is a prefix of one of them
DepotsA == [i \in 1..MaxLocations |-> <<i, i + 1>>]
DepotsB == [i \in 1..MaxLocations |-> <<10 - i, i>>]

LocationLists ==
  { SubSeq(DepotsA, 1, n) : n \in 0..MaxLocations } \cup
  { SubSeq(DepotsB, 1, n) : n \in 0..MaxLocations }

HealthRequests == { [endpoint |-> "health", body |-> Absent] }

PredictionRequests(descs) ==
  { [endpoint |-> "predict_category",
     body |-> [text_description |-> t, image_base64 |-> im]] :
      t \in { JString(d) : d \in descs } \cup {Absent, JNull, JNumber},
      im \in {Absent, JString(<<"i","V","B">>)} }

FeedbackRequests ==
  { [endpoint |-> "log_feedback",
     body |-> [item_id |-> i, actual_category |-> c, correct |-> k]] :
      i \in {Absent, JString(<<"a">>), JString(<<"b">>)},
      c \in {Absent, JString(<<"M","E","D","S">>)},
      k \in {JBoolAbsent, JBool(TRUE), JBool(FALSE)} }

RouteRequests ==
  { [endpoint |-> "optimize_route",
     body |-> [locations |-> l, constraints |-> c]] :
      l \in { JArray(a) : a \in LocationLists } \cup {Absent},
      c \in {JObject("avoid_red_zone"), JObject("none")} }

Requests ==
  HealthRequests \cup PredictionRequests(SampleDescriptions)
    \cup FeedbackRequests \cup RouteRequests

NoRequest == [endpoint |-> "none", body |-> Absent]
NoResponse == [status |-> 0, body |-> Absent]

\* ----------------------------------------------------------------- state
VARIABLES
  pc,        \* pc[w]: "idle", "handler", "printed" or "done"
  req,       \* req[w]: the request worker w is serving
  resp,      \* resp[w]: the response worker w has produced
  log,       \* the process log (stdout): the feedback lines printed so far
  rid,       \* rid[w]: serial number of the feedback request w serves, or 0
  logOwner,  \* logOwner[i]: serial number of the request that printed log[i]
  fbCount,   \* number of feedback requests received so far
  fbValid    \* serial numbers of the feedback requests that passed validation

vars == <<pc, req, resp, log, rid, logOwner, fbCount, fbValid>>

\* ------------------------------------------------------------ validation
\* variant of ValidPredictionRequest whose text_description is optional
ValidPredictionRequest_optional(body) ==
  /\ body.text_description.kind \in {"absent", "null", "string"}
  /\ body.image_base64.kind \in {"absent", "null", "string"}

\* class PredictionRequest(BaseModel): text_description is a required str,
\* image_base64 an optional one.  A str field takes a JSON string only (the
\* string validation of pydantic 2; pydantic 1 would turn a number into text)
ValidPredictionRequest(body) ==
  /\ body.text_description.kind = "string"
  /\ body.image_base64.kind \in {"absent", "null", "string"}

\* class FeedbackRequest(BaseModel)
ValidFeedbackRequest(body) ==
  /\ body.item_id.kind = "string"
  /\ body.actual_category.kind = "string"
  /\ body.correct.kind = "bool"

\* class RouteRequest(BaseModel)
ValidRouteRequest(body) ==
  /\ body.locations.kind = "array"
  /\ body.constraints.kind = "object"

\* the framework validates the body against the handler's parameter type
\* before it calls the handler
Valid(r) ==
  CASE r.endpoint = "health" -> TRUE
    [] r.endpoint = "predict_category" -> ValidPredictionRequest(r.body)
    [] r.endpoint = "log_feedback" -> ValidFeedbackRequest(r.body)
    [] r.endpoint = "optimize_route" -> ValidRouteRequest(r.body)

\* the framework's answer to a body that fails validation
ValidationError == [status |-> 422, body |-> [detail |-> "validation error"]]

Ok(b) == [status |-> 200, body |-> b]

\* -------------------------------------------------------------- handlers
\* variant of health that reports on the feedback log
health_reads_log ==
  [status |-> IF log = <<>> THEN "ok" ELSE "busy", version |-> "1.0.0"]

\* def health()
health == [status |-> "ok", version |-> "1.0.0"]

\* variant of predict_category that tests the MEDS keywords first
predict_category_meds_first(body) ==
  LET desc == lower(body.text_description.val)
  IN  IF AnyIn(desc, MEDS_WORDS)
      THEN [category |-> "MEDS",
            confidence |-> 92,
            explanation |-> "Detected medical terminology.",
            risk_flag |-> TRUE,
            risk_reason |-> "Medical items require expiry check."]
      ELSE IF AnyIn(desc, WATER_WORDS)
      THEN [category |-> "WATER",
            confidence |-> 98,
            explanation |-> "Detected keyword 'water' in description.",
            risk_flag |-> FALSE]
      ELSE [category |-> "OTHER",
            confidence |-> 45,
            explanation |->
              "No strong keywords found. Manual review recommended.",
            risk_flag |-> FALSE]

\* variant of predict_category that does not lowercase the description
predict_category_no_lower(body) ==
  LET desc == body.text_description.val
  IN  IF AnyIn(desc, WATER_WORDS)
      THEN [category |-> "WATER",
            confidence |-> 98,
            explanation |-> "Detected keyword 'water' in description.",
            risk_flag |-> FALSE]
      ELSE IF AnyIn(desc, MEDS_WORDS)
      THEN [category |-> "MEDS",
            confidence |-> 92,
            explanation |-> "Detected medical terminology.",
            risk_flag |-> TRUE,
            risk_reason |-> "Medical items require expiry check."]
      ELSE [category |-> "OTHER",
            confidence |-> 45,
            explanation |->
              "No strong keywords found. Manual review recommended.",
            risk_flag |-> FALSE]

\* variant of predict_category whose MEDS result carries no risk_reason
predict_category_no_reason(body) ==
  LET desc == lower(body.text_description.val)
  IN  IF AnyIn(desc, WATER_WORDS)
      THEN [category |-> "WATER",
            confidence |-> 98,
            explanation |-> "Detected keyword 'water' in description.",
            risk_flag |-> FALSE]
      ELSE IF AnyIn(desc, MEDS_WORDS)
      THEN [category |-> "MEDS",
            confidence |-> 92,
            explanation |-> "Detected medical terminology.",
            risk_flag |-> TRUE]
      ELSE [category |-> "OTHER",
            confidence |-> 45,
            explanation |->
              "No strong keywords found. Manual review recommended.",
            risk_flag |-> FALSE]

\* def predict_category(req)
predict_category(body) ==
  LET desc == lower(body.text_description.val)
  IN  IF AnyIn(desc, WATER_WORDS)
      THEN [category |-> "WATER",
            confidence |-> 98,
            explanation |-> "Detected keyword 'water' in description.",
            risk_flag |-> FALSE]
      ELSE IF AnyIn(desc, MEDS_WORDS)
      THEN [category |-> "MEDS",
            confidence |-> 92,
            explanation |-> "Detected medical terminology.",
            risk_flag |-> TRUE,
            risk_reason |-> "Medical items require expiry check."]
      ELSE [category |-> "OTHER",
            confidence |-> 45,
            explanation |->
              "No strong keywords found. Manual review recommended.",
            risk_flag |-> FALSE]

\* what log_feedback prints: the fields of the validated request
FeedbackLine(body) ==
  [item_id |-> body.item_id.val,
   actual_category |-> body.actual_category.val,
   correct |-> body.correct.val]

\* what log_feedback returns
log_feedback == [status |-> "logged"]

\* variant of optimize_route that visits the locations in the order given
optimize_route_in_order(body) ==
  [route_id |-> "route-123",
   waypoints_order |-> [i \in 1..Len(body.locations.val) |-> i - 1],
   total_distance_km |-> 452,
   estimated_time_min |-> 120,
   explanation |-> "Route optimized to avoid Sector 4 (Red Zone)."]

\* def optimize_route(req)
optimize_route(body) ==
  [route_id |-> "route-123",
   waypoints_order |-> <<0, 2, 1, 3>>,
   total_distance_km |-> 452,
   estimated_time_min |-> 120,
   explanation |-> "Route optimized to avoid Sector 4 (Red Zone)."]

\* -------------------------------------------------------------- behaviour
Init ==
  /\ pc = [w \in Workers |-> "idle"]
  /\ req = [w \in Workers |-> NoRequest]
  /\ resp = [w \in Workers |-> NoResponse]
  /\ log = <<>>
  /\ rid = [w \in Workers |-> 0]
  /\ logOwner = <<>>
  /\ fbCount = 0
  /\ fbValid = {}

\* a request arrives at an idle worker and is validated; a valid one is
\* handed to its handler, an invalid one is answered with the validation
\* error and no handler runs
Receive(w, r) ==
  /\ pc[w] = "idle"
  /\ req' = [req EXCEPT ![w] = r]
  /\ IF r.endpoint = "log_feedback"
     THEN /\ fbCount < MaxFeedback
          /\ fbCount' = fbCount + 1
          /\ rid' = [rid EXCEPT ![w] = fbCount + 1]
          /\ fbValid' = IF Valid(r) THEN fbValid \cup {fbCount + 1}
                        ELSE fbValid
     ELSE UNCHANGED <<fbCount, rid, fbValid>>
  /\ IF Valid(r)
     THEN /\ pc' = [pc EXCEPT ![w] = "handler"]
          /\ UNCHANGED resp
     ELSE /\ pc' = [pc EXCEPT ![w] = "done"]
          /\ resp' = [resp EXCEPT ![w] = ValidationError]
  /\ UNCHANGED <<log, logOwner>>

\* GET /health
Health(w) ==
  /\ pc[w] = "handler"
  /\ req[w].endpoint = "health"
  /\ resp' = [resp EXCEPT ![w] = Ok(health)]
  /\ pc' = [pc EXCEPT ![w] = "done"]
  /\ UNCHANGED <<req, log, rid, logOwner, fbCount, fbValid>>

\* POST /predict/category
PredictCategory(w) ==
  /\ pc[w] = "handler"
  /\ req[w].endpoint = "predict_category"
  /\ resp' = [resp EXCEPT ![w] = Ok(predict_category(req[w].body))]
  /\ pc' = [pc EXCEPT ![w] = "done"]
  /\ UNCHANGED <<req, log, rid, logOwner, fbCount, fbValid>>

\* variant of LogFeedbackPrint that drops the feedback line
LogFeedbackPrint_dropped(w) ==
  /\ pc[w] = "handler"
  /\ req[w].endpoint = "log_feedback"
  /\ pc' = [pc EXCEPT ![w] = "printed"]
  /\ UNCHANGED <<req, resp, log, rid, logOwner, fbCount, fbValid>>

\* POST /ml/feedback, the print statement
LogFeedbackPrint(w) ==
  /\ pc[w] = "handler"
  /\ req[w].endpoint = "log_feedback"
  /\ log' = Append(log, FeedbackLine(req[w].body))
  /\ logOwner' = Append(logOwner, rid[w])
  /\ pc' = [pc EXCEPT ![w] = "printed"]
  /\ UNCHANGED <<req, resp, rid, fbCount, fbValid>>

\* POST /ml/feedback, the return statement
LogFeedbackReturn(w) ==
  /\ pc[w] = "printed"
  /\ resp' = [resp EXCEPT ![w] = Ok(log_feedback)]
  /\ pc' = [pc EXCEPT ![w] = "done"]
  /\ UNCHANGED <<req, log, rid, logOwner, fbCount, fbValid>>

\* POST /optimize/route
OptimizeRoute(w) ==
  /\ pc[w] = "handler"
  /\ req[w].endpoint = "optimize_route"
  /\ resp' = [resp EXCEPT ![w] = Ok(optimize_route(req[w].body))]
  /\ pc' = [pc EXCEPT ![w] = "done"]
  /\ UNCHANGED <<req, log, rid, logOwner, fbCount, fbValid>>

\* the response is sent; request and response are discarded
Reply(w) ==
  /\ pc[w] = "done"
  /\ pc' = [pc EXCEPT ![w] = "idle"]
  /\ req' = [req EXCEPT ![w] = NoRequest]
  /\ resp' = [resp EXCEPT ![w] = NoResponse]
  /\ rid' = [rid EXCEPT ![w] = 0]
  /\ UNCHANGED <<log, logOwner, fbCount, fbValid>>

Next ==
  \E w \in Workers :
    \/ \E r \in Requests : Receive(w, r)
    \/ Health(w)
    \/ PredictCategory(w)
    \/ LogFeedbackPrint(w)
    \/ LogFeedbackReturn(w)
    \/ OptimizeRoute(w)
    \/ Reply(w)

Spec == Init /\ [][Next]_vars

\* ------------------------------------------- the classifier on its own
\* one worker holds a validated prediction request, any description of
\* Descriptions, and the handler is applied to it
ClassifyInit ==
  /\ \E d \in Descriptions :
       req = [w \in Workers |->
                IF w = "w1"
                THEN [endpoint |-> "predict_category",
                      body |-> [text_description |-> JString(d),
                                image_base64 |-> Absent]]
                ELSE NoRequest]
  /\ pc = [w \in Workers |-> IF w = "w1" THEN "handler" ELSE "idle"]
  /\ resp = [w \in Workers |-> NoResponse]
  /\ log = <<>>
  /\ rid = [w \in Workers |-> 0]
  /\ logOwner = <<>>
  /\ fbCount = 0
  /\ fbValid = {}

ClassifyNext == \E w \in Workers : PredictCategory(w)

SpecClassify == ClassifyInit /\ [][ClassifyNext]_vars

\* ============================================================ properties
\* the keywords as the specification lists them
WaterKeywords ==
  { <<"w","a","t","e","r">>, <<"b","o","t","t","l","e">>,
    <<"d","r","i","n","k">> }

MedsKeywords ==
  { <<"p","i","l","l">>, <<"d","r","u","g">>,
    <<"m","e","d","i","c","i","n","e">>, <<"b","a","n","d","a","g","e">> }

\* a and b are the same character up to letter case
SameLetter(a, b) ==
  \/ a = b
  \/ \E i \in 1..Len(UPPER) : {a, b} = {UPPER[i], LOWER[i]}

\* text s holds keyword kw as a substring, in any letter case
Mentions(s, kw) ==
  \E i \in 1..Len(s) :
    /\ i + Len(kw) - 1 <= Len(s)
    /\ \A j \in 1..Len(kw) : SameLetter(s[i + j - 1], kw[j])

MentionsWater(s) == \E kw \in WaterKeywords : Mentions(s, kw)
MentionsMeds(s) == \E kw \in MedsKeywords : Mentions(s, kw)

\* worker w has answered a prediction request with a classification
Classified(w) ==
  /\ pc[w] = "done"
  /\ req[w].endpoint = "predict_category"
  /\ resp[w].status = 200

Description(w) == req[w].body.text_description.val

Text(a, b) == a \o b

Bottle == <<"B","o","t","t","l","e">>
Medicine == <<"m","e","d","i","c","i","n","e">>

\* C1: a description that holds both a WATER keyword and a MEDS keyword, in
\* any order, is classified WATER with confidence 0.98, never MEDS
C1_BothKeywordsGiveWater ==
  \A w \in Workers :
    (Classified(w) /\ MentionsWater(Description(w))
       /\ MentionsMeds(Description(w)))
      => /\ resp[w].body.category = "WATER"
         /\ resp[w].body.confidence = 98

\* "medicine" before "Bottle" has been classified, as WATER
C1_Witness ==
  /\ Classified("w1")
  /\ Description("w1") = Text(Medicine, Bottle)
  /\ resp["w1"].body.category = "WATER"

\* C2: a description that holds a WATER keyword in any letter case and no
\* MEDS keyword gives WATER, confidence 0.98, risk_flag false, no risk_reason
C2_WaterKeyword ==
  \A w \in Workers :
    (Classified(w) /\ MentionsWater(Description(w))
       /\ ~MentionsMeds(Description(w)))
      => /\ resp[w].body.category = "WATER"
         /\ resp[w].body.confidence = 98
         /\ resp[w].body.risk_flag = FALSE
         /\ "risk_reason" \notin DOMAIN resp[w].body

\* "WATERproof" has been classified, as WATER
C2_Witness ==
  /\ Classified("w1")
  /\ Description("w1") = Text(<<"W","A","T","E","R">>, <<"p","r","o","o","f">>)
  /\ resp["w1"].body.category = "WATER"
  /\ resp["w1"].body.risk_flag = FALSE

\* C3: a description that holds a MEDS keyword in any letter case and no
\* WATER keyword gives MEDS, confidence 0.92, risk_flag true and the
\* risk_reason "Medical items require expiry check."
C3_MedsKeyword ==
  \A w \in Workers :
    (Classified(w) /\ MentionsMeds(Description(w))
       /\ ~MentionsWater(Description(w)))
      => /\ resp[w].body.category = "MEDS"
         /\ resp[w].body.confidence = 92
         /\ resp[w].body.risk_flag = TRUE
         /\ "risk_reason" \in DOMAIN resp[w].body
         /\ resp[w].body.risk_reason = "Medical items require expiry check."

\* "2L Drug" has been classified, as MEDS with the risk flag
C3_Witness ==
  /\ Classified("w1")
  /\ Description("w1") = Text(<<"2","L"," ">>, <<"D","r","u","g">>)
  /\ resp["w1"].body.category = "MEDS"
  /\ resp["w1"].body.risk_flag = TRUE

\* the three results the classifier can give
WaterResult ==
  [category |-> "WATER", confidence |-> 98, risk_flag |-> FALSE]
MedsResult ==
  [category |-> "MEDS", confidence |-> 92, risk_flag |-> TRUE,
   risk_reason |-> "Medical items require expiry check."]
OtherResult ==
  [category |-> "OTHER", confidence |-> 45, risk_flag |-> FALSE]

\* the fields of a result other than its explanation
Verdict(b) == [f \in (DOMAIN b) \ {"explanation"} |-> b[f]]

\* C4: a description that holds none of the seven keywords, the empty one
\* included, gives OTHER, confidence 0.45, risk_flag false, no risk_reason;
\* every classified description has exactly one of the three results, and
\* OTHER only when it holds no keyword
C4_NoKeywordGivesOther ==
  \A w \in Workers :
    Classified(w) =>
      /\ Verdict(resp[w].body) \in {WaterResult, MedsResult, OtherResult}
      /\ (~MentionsWater(Description(w)) /\ ~MentionsMeds(Description(w)))
           <=> Verdict(resp[w].body) = OtherResult

\* the empty description has been classified, as OTHER
C4_Witness ==
  /\ Classified("w1")
  /\ Description("w1") = <<>>
  /\ resp["w1"].body.category = "OTHER"
  /\ resp["w1"].body.confidence = 45

\* the explanation that cites keyword kw
Citing(kw) ==
  CASE kw = <<"w","a","t","e","r">> ->
         "Detected keyword 'water' in description."
    [] kw = <<"b","o","t","t","l","e">> ->
         "Detected keyword 'bottle' in description."
    [] kw = <<"d","r","i","n","k">> ->
         "Detected keyword 'drink' in description."

\* C10: the explanation of a WATER result names a keyword that the
\* description holds
C10_ExplanationCitesMatch ==
  \A w \in Workers :
    (Classified(w) /\ resp[w].body.category = "WATER")
      => \E kw \in WaterKeywords :
           /\ Mentions(Description(w), kw)
           /\ resp[w].body.explanation = Citing(kw)

\* worker w has answered a route request that passed validation
Routed(w) ==
  /\ pc[w] = "done"
  /\ req[w].endpoint = "optimize_route"
  /\ resp[w].status = 200

\* order lists each of 0..n-1 exactly once and nothing else
IsPermutationOfIndices(order, n) ==
  /\ Len(order) = n
  /\ { order[i] : i \in 1..Len(order) } = 0..(n - 1)

\* C5: waypoints_order is a permutation of the indices of the request's
\* locations, whatever the length of the list
C5_WaypointsArePermutation ==
  \A w \in Workers :
    Routed(w) =>
      IsPermutationOfIndices(resp[w].body.waypoints_order,
                             Len(req[w].body.locations.val))

\* the response the specification gives for every route request
RouteLiteral ==
  [route_id |-> "route-123",
   waypoints_order |-> <<0, 2, 1, 3>>,
   total_distance_km |-> 452,
   estimated_time_min |-> 120,
   explanation |-> "Route optimized to avoid Sector 4 (Red Zone)."]

\* C6: every valid route request gets the literal response, so two valid
\* requests that differ in locations or constraints get the same response
C6_RouteIsLiteral ==
  /\ \A w \in Workers :
       Routed(w) =>
         /\ resp[w].body.route_id = "route-123"
         /\ resp[w].body.waypoints_order = <<0, 2, 1, 3>>
         /\ resp[w].body.total_distance_km = 452
         /\ resp[w].body.estimated_time_min = 120
  /\ \A w1, w2 \in Workers :
       (Routed(w1) /\ Routed(w2)) => resp[w1] = resp[w2]

\* two route requests that differ in locations and in constraints have
\* both been answered
C6_Witness ==
  /\ Routed("w1") /\ Routed("w2")
  /\ Len(req["w1"].body.locations.val) = 0
  /\ Len(req["w2"].body.locations.val) = 3
  /\ req["w1"].body.constraints # req["w2"].body.constraints

\* number of log lines printed by feedback request number id
Lines(id) == Cardinality({ i \in 1..Len(logOwner) : logOwner[i] = id })

\* a feedback body with all of its fields, each of its type
WellFormedFeedback(body) ==
  /\ body.item_id.kind = "string"
  /\ body.actual_category.kind = "string"
  /\ body.correct.kind = "bool"

\* C7: a feedback request that passes validation is in the log exactly once
\* from its print on, so before its response, which is {status: "logged"};
\* one that fails validation is never in the log; the log holds one line
\* per validated request, in any interleaving
C7_FeedbackLoggedOnce ==
  /\ Len(log) = Len(logOwner)
  /\ \A id \in 1..fbCount :
       Lines(id) =
         IF id \in fbValid
              /\ ~(\E w \in Workers : rid[w] = id /\ pc[w] = "handler")
         THEN 1 ELSE 0
  /\ \A w \in Workers :
       (req[w].endpoint = "log_feedback") =>
         /\ rid[w] \in fbValid <=> WellFormedFeedback(req[w].body)
         /\ (pc[w] = "done" /\ WellFormedFeedback(req[w].body)) =>
              /\ resp[w] = [status |-> 200, body |-> [status |-> "logged"]]
              /\ \E i \in 1..Len(log) :
                   /\ logOwner[i] = rid[w]
                   /\ log[i].item_id = req[w].body.item_id.val
                   /\ log[i].actual_category = req[w].body.actual_category.val
                   /\ log[i].correct = req[w].body.correct.val
         /\ (pc[w] = "done" /\ ~WellFormedFeedback(req[w].body)) =>
              /\ resp[w].status = 422
              /\ Lines(rid[w]) = 0

\* two valid feedback requests were served concurrently and both are
\* answered, a third request failed validation, and the log has two lines
C7_Witness ==
  /\ pc["w1"] = "done" /\ pc["w2"] = "done"
  /\ req["w1"].endpoint = "log_feedback"
  /\ req["w2"].endpoint = "log_feedback"
  /\ resp["w1"].status = 200 /\ resp["w2"].status = 200
  /\ logOwner = <<rid["w2"], rid["w1"]>>
  /\ rid["w1"] < rid["w2"]

\* C8: a prediction request whose text_description is missing or not text
\* is answered with a 4xx validation error and never reaches the handler;
\* one that omits only image_base64 is not rejected
C8_InvalidPredictionRejected ==
  \A w \in Workers :
    (req[w].endpoint = "predict_category") =>
      /\ (req[w].body.text_description.kind # "string") =>
           /\ pc[w] = "done"
           /\ resp[w].status \in 400..499
           /\ "category" \notin DOMAIN resp[w].body
      /\ (req[w].body.text_description.kind = "string") =>
           \/ pc[w] = "handler"
           \/ pc[w] = "done" /\ resp[w].status = 200
                /\ "category" \in DOMAIN resp[w].body

\* a request without text_description was rejected while a request with
\* text_description and without image_base64 was classified
C8_Witness ==
  /\ pc["w1"] = "done" /\ pc["w2"] = "done"
  /\ req["w1"].endpoint = "predict_category"
  /\ req["w1"].body.text_description.kind = "absent"
  /\ resp["w1"].status = 422
  /\ req["w2"].endpoint = "predict_category"
  /\ req["w2"].body.text_description.kind = "string"
  /\ req["w2"].body.image_base64.kind = "absent"
  /\ resp["w2"].status = 200

\* C9: two answered requests with the same payload have the same response,
\* whatever was served or logged in between, and an answered health request
\* has status "ok" and version "1.0.0" in every reachable state
C9_Stateless ==
  /\ \A w1, w2 \in Workers :
       (pc[w1] = "done" /\ pc[w2] = "done" /\ req[w1] = req[w2])
         => resp[w1] = resp[w2]
  /\ \A w \in Workers :
       (pc[w] = "done" /\ req[w].endpoint = "health")
         => /\ resp[w].status = 200
            /\ resp[w].body.status = "ok"
            /\ resp[w].body.version = "1.0.0"

\* two health requests are answered and feedback has been logged
C9_Witness ==
  /\ pc["w1"] = "done" /\ pc["w2"] = "done"
  /\ req["w1"].endpoint = "health" /\ req["w2"].endpoint = "health"
  /\ resp["w1"].body.status = "ok"
  /\ Len(log) = MaxFeedback

====
